---- MODULE Spec2Model ----
(***************************************************************************)
(* csv_to_json.py: main() reads a CSV file with csv.DictReader and writes  *)
(* the list of row dicts with json.dump.  The model follows main() step by *)
(* step (argument check, the two with-blocks, the two except clauses) and  *)
(* computes the conversion character by character: universal-newline       *)
(* translation of open(mode='r'), the csv.reader automaton of the excel    *)
(* dialect, DictReader's row building, and json.dump's mapping of Python   *)
(* values to JSON values.                                                  *)
(***************************************************************************)
EXTENDS Integers, Sequences, FiniteSets, TLC

VARIABLES
    argc,       \* len(sys.argv), program name included
    table,      \* the table the input file was written from: header and rows
    form,       \* how the input file was written: "lf", "crlf", "unterminated", "empty"
    inStatus,   \* the input path on disk: "ok", "missing", "noperm", "isdir", "baddata"
    inText,     \* the characters stored in the input file
    outStatus,  \* the output path on disk: "absent", "exists", "noperm", "nodir", "isdir"
    diskFull,   \* TRUE when the device has no room for the serialized JSON
    outContent, \* what the output path holds: "none", "old", "empty", "partial", "json"
    written,    \* the JSON array held by the output file when outContent = "json"
    pc,         \* position in main()
    inOpen,     \* csv_file is open
    outOpen,    \* json_file is open
    opened,     \* paths on which open() has been called
    data,       \* the local variable data (list of dicts)
    exc,        \* the exception in flight, or NoExc
    stdout,     \* lines printed by print()
    stderr,     \* the interpreter's traceback for an uncaught exception
    exitCode    \* process exit status, -1 while running

vars == <<argc, table, form, inStatus, inText, outStatus, diskFull, outContent,
          written, pc, inOpen, outOpen, opened, data, exc, stdout, stderr, exitCode>>

---------------------------------------------------------------------------
(* Bounds of the input tables *)
MaxCols == 2
MaxRows == 2

(* Characters *)
COMMA == ","
QUOTE == "\""
LF    == "\n"
CR    == "\r"

(* sys.argv[1], sys.argv[2] *)
input_csv   == "in.csv"
output_json == "out.json"

---------------------------------------------------------------------------
(* Sequence helpers *)
RECURSIVE Flatten(_)
Flatten(ss) == IF ss = <<>> THEN <<>> ELSE Head(ss) \o Flatten(Tail(ss))

RECURSIVE Join(_, _)
Join(ss, sep) ==
    IF ss = <<>> THEN <<>>
    ELSE IF Len(ss) = 1 THEN ss[1]
    ELSE ss[1] \o sep \o Join(Tail(ss), sep)

---------------------------------------------------------------------------
(* The input file: a table written as RFC 4180 text.                       *)
Names == {<<"x">>, <<"y">>}

Cells == << <<>>,
            <<"1">>,
            <<COMMA, QUOTE, LF>>,
            <<"b", CR, LF>> >>

\* a row of w cells, starting at Cells[r + 1] and cycling through Cells
RowOf(w, r) == [j \in 1..w |-> Cells[((j - 1 + r) % Len(Cells)) + 1]]

Headers == UNION {[1..n -> Names] : n \in 0..MaxCols}

\* widths of the rows under a header of n columns: 0 is a blank line, n a
\* full row, n - 1 and n + 1 ragged rows
Widths(n) == {0} \cup ({n - 1, n, n + 1} \cap (1..(n + 1)))

\* up to MaxRows rows; row i starts one cell further in Cells than row i - 1,
\* so the rows of a table differ from each other and from column to column
RowsFor(n) ==
    UNION {{[i \in 1..m |-> RowOf(w[i], r + i - 1)] :
                w \in [1..m -> Widths(n)], r \in 0..(Len(Cells) - 1)} :
           m \in 0..MaxRows}

Tables ==
    UNION {{[header |-> h, rows |-> rs] : rs \in RowsFor(Len(h))} : h \in Headers}

NeedsQuote(cell) == \E i \in 1..Len(cell) : cell[i] \in {COMMA, QUOTE, CR, LF}

WriteField(cell, alone) ==
    IF NeedsQuote(cell)
    THEN <<QUOTE>>
         \o Flatten([i \in 1..Len(cell) |->
                        IF cell[i] = QUOTE THEN <<QUOTE, QUOTE>> ELSE <<cell[i]>>])
         \o <<QUOTE>>
    ELSE IF cell = <<>> /\ alone THEN <<QUOTE, QUOTE>>
    ELSE cell

WriteRow(row, eol) ==
    Join([j \in 1..Len(row) |-> WriteField(row[j], Len(row) = 1)], <<COMMA>>) \o eol

WriteCsv(t, eol) ==
    WriteRow(t.header, eol) \o Flatten([i \in 1..Len(t.rows) |-> WriteRow(t.rows[i], eol)])

\* the file as stored on disk
FileText(t, f) ==
    CASE f = "lf"           -> WriteCsv(t, <<LF>>)
      [] f = "crlf"         -> WriteCsv(t, <<CR, LF>>)
      [] f = "unterminated" -> WriteCsv(t, <<LF>>) \o <<QUOTE, "a">>
      [] OTHER              -> <<>>

---------------------------------------------------------------------------
(* open(input_csv, mode='r'): newline=None translates "\r\n" and "\r" to   *)
(* "\n" everywhere in the text, inside quoted fields too.                  *)
RECURSIVE Translate(_)
Translate(s) ==
    IF s = <<>> THEN <<>>
    ELSE IF s[1] = CR
         THEN IF Len(s) >= 2 /\ s[2] = LF
              THEN <<LF>> \o Translate(SubSeq(s, 3, Len(s)))
              ELSE <<LF>> \o Translate(Tail(s))
         ELSE <<s[1]>> \o Translate(Tail(s))

---------------------------------------------------------------------------
(* csv.reader(csv_file), dialect "excel": delimiter ',', quotechar '"',    *)
(* doublequote, no escapechar, not strict.  The automaton of the reader,   *)
(* one character at a time; EOL is the end-of-line signal the reader feeds *)
(* itself after the last character of every line.                          *)
EOL == "EOL"

ParserReset == [state |-> "START_RECORD", field |-> <<>>, fields |-> <<>>, err |-> FALSE]

SaveField(st) == [st EXCEPT !.fields = Append(@, st.field), !.field = <<>>]

AddChar(st, c) == [st EXCEPT !.field = Append(@, c)]

AfterLineEnd(c) == IF c = EOL THEN "START_RECORD" ELSE "EAT_CRNL"

StartField(st, c) ==
    IF c \in {LF, CR, EOL} THEN [SaveField(st) EXCEPT !.state = AfterLineEnd(c)]
    ELSE IF c = QUOTE THEN [st EXCEPT !.state = "IN_QUOTED_FIELD"]
    ELSE IF c = COMMA THEN [SaveField(st) EXCEPT !.state = "START_FIELD"]
    ELSE [AddChar(st, c) EXCEPT !.state = "IN_FIELD"]

ParseChar(st, c) ==
    CASE st.state = "START_RECORD" ->
            IF c = EOL THEN st
            ELSE IF c \in {LF, CR} THEN [st EXCEPT !.state = "EAT_CRNL"]
            ELSE StartField(st, c)
      [] st.state = "START_FIELD" -> StartField(st, c)
      [] st.state = "IN_FIELD" ->
            IF c \in {LF, CR, EOL} THEN [SaveField(st) EXCEPT !.state = AfterLineEnd(c)]
            ELSE IF c = COMMA THEN [SaveField(st) EXCEPT !.state = "START_FIELD"]
            ELSE AddChar(st, c)
      [] st.state = "IN_QUOTED_FIELD" ->
            IF c = EOL THEN st
            ELSE IF c = QUOTE THEN [st EXCEPT !.state = "QUOTE_IN_QUOTED_FIELD"]
            ELSE AddChar(st, c)
      [] st.state = "QUOTE_IN_QUOTED_FIELD" ->
            IF c = QUOTE THEN [AddChar(st, c) EXCEPT !.state = "IN_QUOTED_FIELD"]
            ELSE IF c = COMMA THEN [SaveField(st) EXCEPT !.state = "START_FIELD"]
            ELSE IF c \in {LF, CR, EOL}
                 THEN [SaveField(st) EXCEPT !.state = AfterLineEnd(c)]
            ELSE [AddChar(st, c) EXCEPT !.state = "IN_FIELD"]
      [] OTHER -> \* EAT_CRNL
            IF c \in {LF, CR} THEN st
            ELSE IF c = EOL THEN [st EXCEPT !.state = "START_RECORD"]
            ELSE [st EXCEPT !.err = TRUE]

\* the end of the input: a last line without "\n" still gets its EOL, and a
\* record left open (text in the field, or inside quotes) is returned as is
EndOfInput(text, st, recs) ==
    LET partial == text /= <<>> /\ text[Len(text)] /= LF
        st1     == IF partial THEN ParseChar(st, EOL) ELSE st
    IN  IF st1.err THEN [err |-> TRUE, records |-> recs]
        ELSE IF partial /\ st1.state = "START_RECORD"
             THEN [err |-> FALSE, records |-> Append(recs, st1.fields)]
        ELSE IF st1.field /= <<>> \/ st1.state = "IN_QUOTED_FIELD"
             THEN [err |-> FALSE, records |-> Append(recs, SaveField(st1).fields)]
        ELSE [err |-> FALSE, records |-> recs]

\* the records csv.reader yields over the lines of text; a line ends at "\n"
RECURSIVE Scan(_, _, _, _)
Scan(text, i, st, recs) ==
    IF st.err THEN [err |-> TRUE, records |-> recs]
    ELSE IF i > Len(text) THEN EndOfInput(text, st, recs)
    ELSE LET st1 == ParseChar(st, text[i])
             st2 == IF text[i] = LF /\ ~st1.err THEN ParseChar(st1, EOL) ELSE st1
         IN  IF text[i] = LF /\ ~st2.err /\ st2.state = "START_RECORD"
             THEN Scan(text, i + 1, ParserReset, Append(recs, st2.fields))
             ELSE Scan(text, i + 1, st2, recs)

ReaderRecords(text) == Scan(text, 1, ParserReset, <<>>)

---------------------------------------------------------------------------
(* Python values held in data: str, None, and list of str; a dict is the   *)
(* sequence of its items in insertion order.                               *)
PyStr(s)     == [t |-> "str",  s |-> s,    items |-> <<>>]
PyNone       == [t |-> "None", s |-> <<>>, items |-> <<>>]
PyList(strs) == [t |-> "list", s |-> <<>>, items |-> strs]

HasKey(d, k) == \E i \in 1..Len(d) : d[i].key = k

\* d[k] = v: an existing key keeps its position and takes the new value
DictSet(d, k, v) ==
    IF HasKey(d, k)
    THEN [i \in 1..Len(d) |-> IF d[i].key = k THEN [key |-> k, val |-> v] ELSE d[i]]
    ELSE Append(d, [key |-> k, val |-> v])

RECURSIVE DictFromPairs(_, _)
DictFromPairs(d, pairs) ==
    IF pairs = <<>> THEN d
    ELSE DictFromPairs(DictSet(d, Head(pairs).key, Head(pairs).val), Tail(pairs))

Min(a, b) == IF a < b THEN a ELSE b

restkey == PyNone
restval == PyNone

\* DictRow without the restval fill: a short row keeps only the keys it has
DictRowNoRestval(fieldnames, row) ==
    LET lf == Len(fieldnames)
        lr == Len(row)
        d  == DictFromPairs(<<>>, [j \in 1..Min(lf, lr) |->
                                      [key |-> PyStr(fieldnames[j]), val |-> PyStr(row[j])]])
    IN  IF lf < lr THEN DictSet(d, restkey, PyList(SubSeq(row, lf + 1, lr))) ELSE d

\* DictReader.__next__ for one non-empty record
DictRow(fieldnames, row) ==
    LET lf == Len(fieldnames)
        lr == Len(row)
        d  == DictFromPairs(<<>>, [j \in 1..Min(lf, lr) |->
                                      [key |-> PyStr(fieldnames[j]), val |-> PyStr(row[j])]])
    IN  IF lf < lr THEN DictSet(d, restkey, PyList(SubSeq(row, lf + 1, lr)))
        ELSE IF lf > lr
             THEN DictFromPairs(d, [j \in 1..(lf - lr) |->
                                      [key |-> PyStr(fieldnames[lr + j]), val |-> restval]])
        ELSE d

\* DictReaderList collecting the rows in reverse order
DictReaderListReversed(records) ==
    IF records = <<>> THEN <<>>
    ELSE LET fieldnames == records[1]
             rest == SelectSeq(Tail(records), LAMBDA r : r /= <<>>)
         IN  [i \in 1..Len(rest) |-> DictRow(fieldnames, rest[Len(rest) + 1 - i])]

\* list(csv.DictReader(csv_file)): the first record is fieldnames, records
\* equal to [] are skipped
DictReaderList(records) ==
    IF records = <<>> THEN <<>>
    ELSE LET fieldnames == records[1]
             rest == SelectSeq(Tail(records), LAMBDA r : r /= <<>>)
         IN  [i \in 1..Len(rest) |-> DictRow(fieldnames, rest[i])]

---------------------------------------------------------------------------
(* json.dump(data, json_file, indent=4): a list becomes an array, a dict an *)
(* object with its items in order, str a string, None null; a key that is   *)
(* None becomes the member name "null".                                     *)
JString(s)    == [t |-> "string", s |-> s,    items |-> <<>>]
JNull         == [t |-> "null",   s |-> <<>>, items |-> <<>>]
JArray(items) == [t |-> "array",  s |-> <<>>, items |-> items]

NullName == <<"n", "u", "l", "l">>

JsonKey(k) == IF k.t = "None" THEN NullName ELSE k.s

\* JsonValue with type inference: a cell of digits is written as a number
JsonValueCoerce(v) ==
    CASE v.t = "str"  -> IF v.s /= <<>> /\ \A i \in 1..Len(v.s) : v.s[i] \in {"0", "1"}
                         THEN [t |-> "number", s |-> v.s, items |-> <<>>]
                         ELSE JString(v.s)
      [] v.t = "None" -> JNull
      [] OTHER        -> JArray([i \in 1..Len(v.items) |-> JString(v.items[i])])

JsonValue(v) ==
    CASE v.t = "str"  -> JString(v.s)
      [] v.t = "None" -> JNull
      [] OTHER        -> JArray([i \in 1..Len(v.items) |-> JString(v.items[i])])

JsonDump(rows) ==
    [i \in 1..Len(rows) |->
        [j \in 1..Len(rows[i]) |->
            [name |-> JsonKey(rows[i][j].key), val |-> JsonValue(rows[i][j].val)]]]

\* the whole conversion of lines 14-19 on the stored text
Convert(text) == JsonDump(DictReaderList(ReaderRecords(Translate(text)).records))

---------------------------------------------------------------------------
(* The process *)
MaxArgc == 4

InStatuses  == {"ok", "missing", "noperm", "isdir", "baddata"}
OutStatuses == {"absent", "exists", "noperm", "nodir", "isdir"}
Forms       == {"lf", "crlf", "unterminated"}

NoExc == [type |-> "none", filename |-> ""]
Raise(type, filename) == [type |-> type, filename |-> filename]

UsageMsg      == [kind |-> "usage",      paths |-> <<>>]
SuccessMsg    == [kind |-> "success",    paths |-> <<input_csv, output_json>>]
NotFoundMsg   == [kind |-> "notfound",   paths |-> <<input_csv>>]
PermissionMsg == [kind |-> "permission", paths |-> <<input_csv, output_json>>]

SampleTable == [header |-> <<<<"x">>, <<"y">>>>, rows |-> <<RowOf(2, 1)>>]
EmptyTable  == [header |-> <<>>, rows |-> <<>>]

\* the state of a fresh process: the two paths as they are on disk
Start ==
    /\ inText = (IF inStatus \in {"missing", "isdir"} THEN <<>> ELSE FileText(table, form))
    /\ outContent = (IF outStatus \in {"absent", "nodir"} THEN "none" ELSE "old")
    /\ written = <<>>
    /\ pc = "start"
    /\ inOpen = FALSE
    /\ outOpen = FALSE
    /\ opened = {}
    /\ data = <<>>
    /\ exc = NoExc
    /\ stdout = <<>>
    /\ stderr = <<>>
    /\ exitCode = -1

Init ==
    /\ \/ /\ argc = 3
          /\ \/ table \in Tables /\ form \in Forms
             \/ table = EmptyTable /\ form = "empty"
          /\ inStatus = "ok"
          /\ outStatus = "absent"
          /\ diskFull = FALSE
       \/ /\ argc \in 1..MaxArgc
          /\ table = SampleTable
          /\ form = "lf"
          /\ inStatus \in InStatuses
          /\ outStatus \in OutStatuses
          /\ diskFull \in BOOLEAN
    /\ Start

\* CheckArgs testing len(sys.argv) < 3: extra arguments are let through
CheckArgsTooFew ==
    /\ pc = "start"
    /\ IF argc < 3
       THEN /\ stdout' = Append(stdout, UsageMsg)
            /\ exitCode' = 1
            /\ pc' = "exited"
       ELSE /\ pc' = "open_in"
            /\ UNCHANGED <<stdout, exitCode>>
    /\ UNCHANGED <<argc, table, form, inStatus, inText, outStatus, diskFull, outContent,
                   written, inOpen, outOpen, opened, data, exc, stderr>>

\* lines 6-11
CheckArgs ==
    /\ pc = "start"
    /\ IF argc /= 3
       THEN /\ stdout' = Append(stdout, UsageMsg)
            /\ exitCode' = 1
            /\ pc' = "exited"
       ELSE /\ pc' = "open_in"
            /\ UNCHANGED <<stdout, exitCode>>
    /\ UNCHANGED <<argc, table, form, inStatus, inText, outStatus, diskFull, outContent,
                   written, inOpen, outOpen, opened, data, exc, stderr>>

\* line 14: open(input_csv, mode='r', encoding='utf-8')
OpenInput ==
    /\ pc = "open_in"
    /\ opened' = opened \cup {input_csv}
    /\ IF inStatus \in {"missing", "noperm", "isdir"}
       THEN /\ exc' = Raise(CASE inStatus = "missing" -> "FileNotFoundError"
                              [] inStatus = "noperm"  -> "PermissionError"
                              [] OTHER                -> "IsADirectoryError",
                            input_csv)
            /\ pc' = "except"
            /\ UNCHANGED inOpen
       ELSE /\ inOpen' = TRUE
            /\ pc' = "read"
            /\ UNCHANGED exc
    /\ UNCHANGED <<argc, table, form, inStatus, inText, outStatus, diskFull, outContent,
                   written, outOpen, data, stdout, stderr, exitCode>>

\* lines 15-16: data = list(csv.DictReader(csv_file)); an exception leaves
\* the with-block, which closes csv_file
ReadInput ==
    /\ pc = "read"
    /\ LET r == ReaderRecords(Translate(inText))
       IN  IF inStatus = "baddata" \/ r.err
           THEN /\ exc' = Raise(IF inStatus = "baddata" THEN "UnicodeDecodeError"
                                                        ELSE "csv.Error", "")
                /\ inOpen' = FALSE
                /\ pc' = "except"
                /\ UNCHANGED data
           ELSE /\ data' = DictReaderList(r.records)
                /\ pc' = "close_in"
                /\ UNCHANGED <<exc, inOpen>>
    /\ UNCHANGED <<argc, table, form, inStatus, inText, outStatus, diskFull, outContent,
                   written, outOpen, opened, stdout, stderr, exitCode>>

\* CloseInput without the with-block: csv_file is never closed
CloseInputLeak ==
    /\ pc = "close_in"
    /\ pc' = "open_out"
    /\ UNCHANGED <<argc, table, form, inStatus, inText, outStatus, diskFull, outContent,
                   written, inOpen, outOpen, opened, data, exc, stdout, stderr, exitCode>>

\* line 16, leaving the first with-block
CloseInput ==
    /\ pc = "close_in"
    /\ inOpen' = FALSE
    /\ pc' = "open_out"
    /\ UNCHANGED <<argc, table, form, inStatus, inText, outStatus, diskFull, outContent,
                   written, outOpen, opened, data, exc, stdout, stderr, exitCode>>

\* line 18: open(output_json, mode='w', encoding='utf-8') creates or truncates
OpenOutput ==
    /\ pc = "open_out"
    /\ opened' = opened \cup {output_json}
    /\ IF outStatus \in {"nodir", "noperm", "isdir"}
       THEN /\ exc' = Raise(CASE outStatus = "nodir"  -> "FileNotFoundError"
                              [] outStatus = "noperm" -> "PermissionError"
                              [] OTHER                -> "IsADirectoryError",
                            output_json)
            /\ pc' = "except"
            /\ UNCHANGED <<outOpen, outContent>>
       ELSE /\ outOpen' = TRUE
            /\ outContent' = "empty"
            /\ pc' = "write"
            /\ UNCHANGED exc
    /\ UNCHANGED <<argc, table, form, inStatus, inText, outStatus, diskFull,
                   written, inOpen, data, stdout, stderr, exitCode>>

\* WriteOutput swallowing the failed write and carrying on
WriteOutputSwallow ==
    /\ pc = "write"
    /\ IF diskFull
       THEN /\ outContent' = "partial"
            /\ UNCHANGED written
       ELSE /\ written' = JsonDump(data)
            /\ outContent' = "json"
    /\ pc' = "close_out"
    /\ UNCHANGED <<argc, table, form, inStatus, inText, outStatus, diskFull,
                   inOpen, outOpen, opened, data, exc, stdout, stderr, exitCode>>

\* line 19: json.dump(data, json_file, indent=4); a failed write leaves the
\* with-block, which closes json_file
WriteOutput ==
    /\ pc = "write"
    /\ IF diskFull
       THEN /\ exc' = Raise("OSError", "")
            /\ outContent' = "partial"
            /\ outOpen' = FALSE
            /\ pc' = "except"
            /\ UNCHANGED written
       ELSE /\ written' = JsonDump(data)
            /\ outContent' = "json"
            /\ pc' = "close_out"
            /\ UNCHANGED <<exc, outOpen>>
    /\ UNCHANGED <<argc, table, form, inStatus, inText, outStatus, diskFull,
                   inOpen, opened, data, stdout, stderr, exitCode>>

\* line 19, leaving the second with-block
CloseOutput ==
    /\ pc = "close_out"
    /\ outOpen' = FALSE
    /\ pc' = "print_ok"
    /\ UNCHANGED <<argc, table, form, inStatus, inText, outStatus, diskFull, outContent,
                   written, inOpen, opened, data, exc, stdout, stderr, exitCode>>

\* line 21
PrintSuccess ==
    /\ pc = "print_ok"
    /\ stdout' = Append(stdout, SuccessMsg)
    /\ pc' = "return"
    /\ UNCHANGED <<argc, table, form, inStatus, inText, outStatus, diskFull, outContent,
                   written, inOpen, outOpen, opened, data, exc, stderr, exitCode>>

\* ExceptFileNotFound without sys.exit(1): main() returns after the message
ExceptFileNotFoundNoExit ==
    /\ pc = "except"
    /\ exc.type = "FileNotFoundError"
    /\ stdout' = Append(stdout, NotFoundMsg)
    /\ pc' = "return"
    /\ UNCHANGED <<argc, table, form, inStatus, inText, outStatus, diskFull, outContent,
                   written, inOpen, outOpen, opened, data, exc, stderr, exitCode>>

\* lines 23-25
ExceptFileNotFound ==
    /\ pc = "except"
    /\ exc.type = "FileNotFoundError"
    /\ stdout' = Append(stdout, NotFoundMsg)
    /\ exitCode' = 1
    /\ pc' = "exited"
    /\ UNCHANGED <<argc, table, form, inStatus, inText, outStatus, diskFull, outContent,
                   written, inOpen, outOpen, opened, data, exc, stderr>>

\* lines 26-28
ExceptPermission ==
    /\ pc = "except"
    /\ exc.type = "PermissionError"
    /\ stdout' = Append(stdout, PermissionMsg)
    /\ exitCode' = 1
    /\ pc' = "exited"
    /\ UNCHANGED <<argc, table, form, inStatus, inText, outStatus, diskFull, outContent,
                   written, inOpen, outOpen, opened, data, exc, stderr>>

\* no except clause matches: the exception leaves main() at line 31, the
\* interpreter prints the traceback and exits with status 1
Uncaught ==
    /\ pc = "except"
    /\ exc.type \notin {"FileNotFoundError", "PermissionError"}
    /\ stderr' = Append(stderr, [kind |-> "traceback", type |-> exc.type,
                                 paths |-> IF exc.filename = "" THEN <<>>
                                           ELSE <<exc.filename>>])
    /\ exitCode' = 1
    /\ pc' = "exited"
    /\ UNCHANGED <<argc, table, form, inStatus, inText, outStatus, diskFull, outContent,
                   written, inOpen, outOpen, opened, data, exc, stdout>>

\* lines 30-31: main() returns and the interpreter exits with status 0
Return ==
    /\ pc = "return"
    /\ exitCode' = 0
    /\ pc' = "exited"
    /\ UNCHANGED <<argc, table, form, inStatus, inText, outStatus, diskFull, outContent,
                   written, inOpen, outOpen, opened, data, exc, stdout, stderr>>

Next ==
    \/ CheckArgs
    \/ OpenInput
    \/ ReadInput
    \/ CloseInput
    \/ OpenOutput
    \/ WriteOutput
    \/ CloseOutput
    \/ PrintSuccess
    \/ ExceptFileNotFound
    \/ ExceptPermission
    \/ Uncaught
    \/ Return

Spec == Init /\ [][Next]_vars

---------------------------------------------------------------------------
(* What the input file was written from, for stating the properties        *)

Header == table.header

\* the physical data records of the file: the non-blank rows of the table, and
\* the unterminated last line when there is one
Records ==
    SelectSeq(table.rows, LAMBDA r : r /= <<>>)
        \o (IF form = "unterminated" THEN << << <<"a">> >> >> ELSE <<>>)

HeaderNames == {Header[j] : j \in 1..Len(Header)}

DistinctHeader == \A j, k \in 1..Len(Header) : j /= k => Header[j] /= Header[k]

\* header, all rows as wide as the header, every quoted field closed
WellFormed ==
    /\ form \in {"lf", "crlf"}
    /\ Len(Header) >= 1
    /\ \A i \in 1..Len(Records) : Len(Records[i]) = Len(Header)

\* a header line, and every quoted field closed; rows may be ragged
Terminated == form \in {"lf", "crlf"} /\ Len(Header) >= 1

Succeeded == pc = "exited" /\ exitCode = 0

Failed == pc = "exited" /\ exc /= NoExc

MemberNames(obj) == [k \in 1..Len(obj) |-> obj[k].name]

NameSet(obj) == {obj[k].name : k \in 1..Len(obj)}

HasMember(obj, name, val) == \E k \in 1..Len(obj) : obj[k].name = name /\ obj[k].val = val

\* the header with every later repetition of a name removed
RECURSIVE Dedup(_)
Dedup(h) ==
    IF h = <<>> THEN <<>>
    ELSE LET d == Dedup(SubSeq(h, 1, Len(h) - 1))
         IN  IF \E k \in 1..Len(d) : d[k] = h[Len(h)] THEN d ELSE Append(d, h[Len(h)])

LastOfName(j) == \A k \in (j + 1)..Len(Header) : Header[k] /= Header[j]

InitialOutContent == IF outStatus \in {"absent", "nodir"} THEN "none" ELSE "old"

Printed(msg) == \E k \in 1..Len(stdout) : stdout[k] = msg

InputParsed == data = DictReaderList(ReaderRecords(Translate(inText)).records)

---------------------------------------------------------------------------
\* C1 (as claimed): for every well-formed CSV input, blank lines, quoted
\* cells with commas, quotes and newlines and repeated header names included,
\* a successful run writes exactly one object per data row, each object has
\* the keys h1..hn, and object i holds under hj the cell of row i, column j,
\* as a string.
C1_RoundTripFidelity ==
    (Succeeded /\ WellFormed) =>
        /\ Len(written) = Len(Records)
        /\ \A i \in 1..Len(Records) :
              /\ NameSet(written[i]) = HeaderNames
              /\ \A j \in 1..Len(Header) :
                    HasMember(written[i], Header[j], JString(Records[i][j]))

\* C2: in a successful run object i of the array is built from physical data
\* record i (none reordered, dropped or duplicated), and the keys of every
\* object appear in the left-to-right order of the header columns.
C2_OrderPreserved ==
    Succeeded =>
        /\ Len(written) = Len(Records)
        /\ \A i \in 1..Len(Records) :
              /\ MemberNames(written[i]) =
                    Dedup(Header) \o (IF Len(Records[i]) > Len(Header)
                                     THEN <<NullName>> ELSE <<>>)
              /\ \A j \in 1..Len(Header) :
                    LastOfName(j) =>
                        HasMember(written[i], Header[j],
                                  IF j <= Len(Records[i])
                                  THEN JString(Translate(Records[i][j]))
                                  ELSE JNull)

C2_Witness ==
    /\ Succeeded
    /\ Len(written) = 2
    /\ written[1] /= written[2]
    /\ Len(Header) = 2
    /\ DistinctHeader
    /\ \E i \in 1..Len(table.rows) : table.rows[i] = <<>>

\* C3: with a number of arguments other than 2 (len(sys.argv) /= 3), main
\* prints the usage message and exits with status 1, and no file is opened,
\* read, created, truncated or written.
C3_ArgumentValidation ==
    argc /= 3 =>
        /\ opened = {}
        /\ ~inOpen /\ ~outOpen
        /\ outContent = InitialOutContent
        /\ data = <<>>
        /\ pc \in {"start", "exited"}
        /\ pc = "exited" => (stdout = <<UsageMsg>> /\ exitCode = 1)

C3_Witness ==
    /\ argc = 4
    /\ pc = "exited"
    /\ inStatus = "ok"
    /\ outStatus = "exists"

\* C4: when the input path does not exist, main exits with status 1 without
\* the success message, the output path is neither created nor truncated nor
\* modified, and the run never reaches the opening of the output file.
C4_MissingInput ==
    inStatus = "missing" =>
        /\ exitCode /= 0
        /\ ~Printed(SuccessMsg)
        /\ output_json \notin opened
        /\ ~outOpen
        /\ outContent = InitialOutContent
        /\ pc = "exited" => exitCode = 1

C4_Witness ==
    /\ inStatus = "missing"
    /\ argc = 3
    /\ pc = "exited"
    /\ outStatus = "exists"
    /\ Printed(NotFoundMsg)

\* the path whose open, read or write raised the exception
FailingPath ==
    CASE exc.type \in {"UnicodeDecodeError", "csv.Error"} -> input_csv
      [] exc.type = "OSError"                              -> output_json
      [] OTHER                                             -> exc.filename

ExpectedKinds ==
    CASE exc.type = "FileNotFoundError" -> {"notfound"}
      [] exc.type = "PermissionError"   -> {"permission"}
      [] OTHER                          -> {"traceback"}

\* C5 (as claimed): on any failure of steps 1-6 main emits a message naming
\* the path that actually failed, telling 'not found' from 'permission
\* denied', and exits non-zero, whichever of the two paths failed.
C5_ErrorNamesFailingPath ==
    Failed =>
        /\ exitCode /= 0
        /\ \E m \in {stdout[k] : k \in 1..Len(stdout)}
                    \cup {[kind |-> stderr[k].kind, paths |-> stderr[k].paths] :
                             k \in 1..Len(stderr)} :
              /\ m.kind \in ExpectedKinds
              /\ m.paths = <<FailingPath>>

\* C6 (as claimed): every object has exactly the key set of the header; a
\* short row holds null under the absent columns and a long row adds no key
\* that is not a header column.  Stated for files with a header line whose
\* quoted fields are all closed.
C6_KeySetIsHeader ==
    (Succeeded /\ Terminated) =>
        \A i \in 1..Len(written) :
            /\ NameSet(written[i]) = HeaderNames
            /\ \A j \in 1..Len(Header) :
                  (i <= Len(Records) /\ j > Len(Records[i]))
                      => HasMember(written[i], Header[j], JNull)

\* C6 (amended): every object carries every header key; a short row holds
\* null under the absent trailing columns; a long row adds exactly one more
\* key, null, holding the array of its surplus cells, and no other key.
C6_KeySetAmended ==
    Succeeded =>
        /\ Len(written) = Len(Records)
        /\ \A i \in 1..Len(Records) :
              LET n   == Len(Header)
                  row == Records[i]
                  obj == written[i]
              IN  /\ NameSet(obj) = HeaderNames \cup
                                      (IF Len(row) > n THEN {NullName} ELSE {})
                  /\ Len(obj) = Cardinality(NameSet(obj))
                  /\ \A j \in (Len(row) + 1)..n : HasMember(obj, Header[j], JNull)
                  /\ Len(row) > n =>
                        HasMember(obj, NullName,
                                  JArray([k \in 1..(Len(row) - n) |->
                                             JString(Translate(row[n + k]))]))

C6_Witness ==
    /\ Succeeded
    /\ Len(Header) = 2
    /\ \E i, k \in 1..Len(Records) :
          /\ Len(Records[i]) = 1
          /\ Len(Records[k]) = 3
          /\ Len(written[i]) = 2
          /\ Len(written[k]) = 3

\* C7 (as claimed): every value of every object written by a successful run
\* is a JSON string, for rows shorter or longer than the header too.  Stated
\* for files with a header line whose quoted fields are all closed.
C7_AllValuesStrings ==
    (Succeeded /\ Terminated) =>
        \A i \in 1..Len(written) : \A k \in 1..Len(written[i]) :
            written[i][k].val.t = "string"

\* C7 (amended): a cell is written as a JSON string holding its text, with
\* no coercion; a row of the header's length has only strings; the only
\* other values are null, under the absent columns of a short row, and one
\* array of strings, under the key null of a long row.
C7_ValueTypesAmended ==
    Succeeded =>
        /\ Len(written) = Len(Records)
        /\ \A i \in 1..Len(Records) : \A k \in 1..Len(written[i]) :
              LET n   == Len(Header)
                  row == Records[i]
                  m   == written[i][k]
              IN  \/ /\ m.val.t = "string"
                     /\ \E j \in 1..Min(n, Len(row)) :
                           Header[j] = m.name /\ m.val.s = Translate(row[j])
                  \/ /\ m.val.t = "null"
                     /\ Len(row) < n
                     /\ \E j \in (Len(row) + 1)..n : Header[j] = m.name
                  \/ /\ m.val.t = "array"
                     /\ Len(row) > n
                     /\ k = Len(written[i])
                     /\ Len(m.val.items) = Len(row) - n
                     /\ \A x \in 1..Len(m.val.items) :
                           m.val.items[x] = JString(Translate(row[n + x]))

C7_Witness ==
    /\ Succeeded
    /\ \E i \in 1..Len(written) : \E k \in 1..Len(written[i]) :
          written[i][k].val = JString(<<"1">>)
    /\ \E i \in 1..Len(written) : \E k \in 1..Len(written[i]) :
          written[i][k].val.t = "null"
    /\ \E i \in 1..Len(written) : \E k \in 1..Len(written[i]) :
          written[i][k].val.t = "array"

\* C8 (as claimed): an input with a quoted field that is never terminated
\* before the end of the file makes the run fail with exit status 1; no
\* success message, no exit 0, no JSON written from the malformed text.
C8_MalformedRejected ==
    (form = "unterminated" /\ argc = 3 /\ inStatus = "ok" /\ pc = "exited") =>
        /\ exitCode = 1
        /\ ~Printed(SuccessMsg)
        /\ outContent /= "json"

\* C9: the output path is opened only after the whole input has been read
\* and parsed into data and the input handle closed, at most one of the two
\* handles is open at any moment, and no handle is open when the process
\* terminates, whatever the exit path.
C9_ReadBeforeWrite ==
    /\ ~(inOpen /\ outOpen)
    /\ (output_json \in opened \/ outOpen \/ outContent /= InitialOutContent) =>
          /\ ~inOpen
          /\ input_csv \in opened
          /\ InputParsed
    /\ pc = "exited" => (~inOpen /\ ~outOpen)

C9_Witness ==
    /\ outOpen
    /\ outContent = "json"
    /\ Len(data) = 2
    /\ form = "crlf"

\* C10: the success message is printed, and the process exits 0, in exactly
\* the runs where the input was read in full, the complete JSON of data was
\* written and the output handle closed before the message; no run prints it
\* and exits 1, and no run exits 0 without it.
C10_SuccessMeansComplete ==
    /\ Printed(SuccessMsg) =>
          /\ InputParsed
          /\ outContent = "json"
          /\ written = JsonDump(data)
          /\ ~inOpen /\ ~outOpen
          /\ exitCode /= 1
          /\ exc = NoExc
    /\ exitCode = 0 => stdout = <<SuccessMsg>>
    /\ (pc = "exited" /\ exitCode /= 0) => (~Printed(SuccessMsg) /\ outContent /= "json")
    /\ (pc = "exited" /\ outContent = "json") => exitCode = 0

C10_Witness ==
    /\ Succeeded
    /\ stdout = <<SuccessMsg>>
    /\ outStatus = "exists"
    /\ Len(written) = 1

====
